---- MODULE Spec2Model ----
(***************************************************************************)
(* Model of djimaging/processing.py: the ProcessingMethod lookup, the      *)
(* ProcessingTask table, the Processing table with its output-file part    *)
(* table, and Processing.make, the only procedural code of the file.       *)
(* The output directories written by the external tools are modelled as a  *)
(* set of existing paths; a path is a sequence of components.              *)
(***************************************************************************)
EXTENDS Naturals, Sequences, FiniteSets, TLC

\* ------------------------------------------------------------- bounds
NumTasks == 2      \* processing_instance values 1..NumTasks

VARIABLES
    ProcessingMethod,      \* rows of the lookup table ProcessingMethod
    ProcessingTask,        \* rows of the manual table ProcessingTask
    Processing,            \* rows of the computed table Processing
    ProcessingOutputFile,  \* rows of the part table Processing.ProcessingOutputFile
    fs,                    \* the paths that exist on the filesystem
    hook,                  \* the resolvers: the stubs of this file or the deployment's
    last                   \* outcome of the latest call of Processing.make; call
                           \* alternates between 0 and 1 from one call to the next

vars == <<ProcessingMethod, ProcessingTask, Processing, ProcessingOutputFile,
          fs, hook, last>>

\* ------------------------------------------------------------- values
Recognized  == {"suite2p", "caiman"}
MethodNames == Recognized \cup {"other"}
Times       == {"t1", "t2"}     \* instants datetime.now() can return
Instances   == 1..NumTasks
Keys        == {[scan_id |-> "scan", processing_instance |-> u] : u \in Instances}
\* PhysicalFile._get_root_data_dir(): the configured root data directory.
_get_root_data_dir == <<"data">>
NoKey       == [scan_id |-> "none", processing_instance |-> 0]
NoCall      == [key |-> NoKey, error |-> "nocall", resolver |-> "none", dir_existed |-> FALSE,
                call |-> 0]

\* The primary key of a row of ProcessingTask, Processing or its part table.
KeyOf(r) == [scan_id |-> r.scan_id, processing_instance |-> r.processing_instance]
KeysOf(table) == {KeyOf(r) : r \in table}

\* ProcessingMethod.contents: zip(['suite2p', 'caiman'])
contents == {[processing_method |-> m] : m \in Recognized}

\* ------------------------------------------------------------- paths
\* The output files a tool writes, in the order it writes them.
FileNames == <<"F1.npy", "F2.npy">>
FileName(i) == FileNames[i]
IsPrefix(p, q) == Len(p) <= Len(q) /\ SubSeq(q, 1, Len(p)) = p

\* The directory a deployed resolver returns for a task key.
OutputDir(key) == <<"data", "out", ToString(key.processing_instance)>>
OutputFile(key, i) == Append(OutputDir(key), FileName(i))
SubDir(key) == Append(OutputDir(key), "extra")
NestedFile(key) == Append(SubDir(key), FileName(1))

\* Path.is_file(): the regular files of the model are the entries named in FileNames.
is_file(p) == p \in fs /\ Len(p) > 0 /\ \E i \in DOMAIN FileNames : p[Len(p)] = FileName(i)
\* Path.glob('*'): the immediate children of a directory, files and directories.
glob(d) == {p \in fs : Len(p) = Len(d) + 1 /\ IsPrefix(d, p)}

\* Path.relative_to(root): the components after root, ValueError when root is
\* not a prefix of the path.
relative_to(p, r) ==
    IF IsPrefix(r, p)
    THEN [error |-> "none", parts |-> SubSeq(p, Len(r) + 1, Len(p))]
    ELSE [error |-> "ValueError", parts |-> <<>>]

\* Path.as_posix(): the components joined by "/", with a leading "/" when the
\* path is absolute.
RECURSIVE JoinParts(_)
JoinParts(parts) ==
    IF Len(parts) = 0 THEN "."
    ELSE IF Len(parts) = 1 THEN parts[1]
    ELSE parts[1] \o "/" \o JoinParts(Tail(parts))
as_posix(parts, absolute) ==
    IF absolute THEN "/" \o JoinParts(parts) ELSE JoinParts(parts)

\* root / file_path, as a posix string: what a stored path resolves to.
Rejoin(r, file_path) == as_posix(r, TRUE) \o "/" \o file_path

\* ------------------------------------------------------------- datajoint
\* table & key: the rows that agree with the key on every attribute the two
\* have in common; attributes of the key that the table lacks are ignored.
Restrict(table, key) ==
    {r \in table : \A a \in (DOMAIN r) \cap (DOMAIN key) : r[a] = key[a]}

\* fetch1(attr): the attribute of the single row, DataJointError unless the
\* query has exactly one row.
fetch1(rows, attr) ==
    IF Cardinality(rows) = 1
    THEN [error |-> "none", value |-> (CHOOSE r \in rows : TRUE)[attr]]
    ELSE [error |-> "DataJointError", value |-> "none"]

\* insert1(row): DuplicateError when a row with the primary key exists.
insert1(table, row) ==
    IF KeyOf(row) \in KeysOf(table)
    THEN [error |-> "DuplicateError", table |-> table]
    ELSE [error |-> "none", table |-> table \cup {row}]

\* ------------------------------------------------------------- Processing
\* The resolver hooks: the stubs of this file return None, a deployed
\* resolver returns the output directory of the task.
_get_suite2p_dir(key) ==
    IF hook = "stub" THEN [none |-> TRUE, path |-> <<>>]
    ELSE [none |-> FALSE, path |-> OutputDir(key)]

_get_caiman_dir(key) ==
    IF hook = "stub" THEN [none |-> TRUE, path |-> <<>>]
    ELSE [none |-> FALSE, path |-> OutputDir(key)]

\* pathlib.Path(x): TypeError when x is None.
pathlib_Path(x) ==
    IF x.none THEN [error |-> "TypeError", path |-> <<>>]
    ELSE [error |-> "none", path |-> x.path]

\* make, lines 123-128: the dispatch on the method.
dispatch(method, key) ==
    IF method = "suite2p"
    THEN [resolver |-> "suite2p"] @@ pathlib_Path(_get_suite2p_dir(key))
    ELSE IF method = "caiman"
    THEN [resolver |-> "caiman"] @@ pathlib_Path(_get_caiman_dir(key))
    ELSE [resolver |-> "none", error |-> "NotImplementedError", path |-> <<>>]

\* The attributes of a pathlib.Path that make uses and that exist.
PathAttributes == {"exists", "glob", "is_file", "relative_to", "as_posix"}
\* The part tables of Processing.
PartTables == {"ProcessingOutputFile"}

\* Variant of exist: the call is spelled exists(), which pathlib.Path has.
exist_as_exists(data_dir) ==
    [error |-> "none", value |-> data_dir \in fs]

\* make, line 130: data_dir.exist()
exist(data_dir) ==
    IF "exist" \in PathAttributes
    THEN [error |-> "none", value |-> data_dir \in fs]
    ELSE [error |-> "AttributeError", value |-> FALSE]

\* make, lines 134-137: the rows for the output files; self.ScanFile is looked
\* up before the list of rows is built.
ScanFile_insert(key, data_dir, files) ==
    IF "ScanFile" \notin PartTables
    THEN [error |-> "AttributeError", files |-> files]
    ELSE LET regular == {f \in glob(data_dir) : is_file(f)}
             root    == _get_root_data_dir
             rel(f)  == relative_to(f, root)
         IN  IF \E f \in regular : rel(f).error # "none"
             THEN [error |-> "ValueError", files |-> files]
             ELSE [error |-> "none",
                   files |-> files \cup
                       {key @@ [file_path |-> as_posix(rel(f).parts, FALSE)] : f \in regular}]

\* make, lines 131-137: the branch taken when the directory exists.
ingest(key, now, data_dir) ==
    LET ins == insert1(Processing, key @@ [processing_time |-> now])
    IN  IF ins.error # "none"
        THEN [error |-> ins.error, Processing |-> Processing, files |-> ProcessingOutputFile]
        ELSE LET out == ScanFile_insert(key, data_dir, ProcessingOutputFile)
             IN  [error |-> out.error, Processing |-> ins.table, files |-> out.files]

\* Variant of make_body: the branch for an unknown method returns instead of
\* raising.
make_body_unknown_returns(key, now) ==
    LET same == [Processing |-> Processing, files |-> ProcessingOutputFile]
        m == fetch1(Restrict(ProcessingMethod, key), "processing_method")
    IN  IF m.error # "none"
        THEN same @@ [error |-> m.error, resolver |-> "none", dir_existed |-> FALSE]
        ELSE LET d == dispatch(m.value, key)
             IN  IF d.error = "NotImplementedError"
                 THEN same @@ [error |-> "none", resolver |-> d.resolver,
                               dir_existed |-> FALSE]
                 ELSE IF d.error # "none"
                 THEN same @@ [error |-> d.error, resolver |-> d.resolver,
                               dir_existed |-> FALSE]
                 ELSE LET e == exist(d.path)
                          seen == [resolver |-> d.resolver, dir_existed |-> d.path \in fs]
                      IN  IF e.error # "none"
                          THEN same @@ seen @@ [error |-> e.error]
                          ELSE IF e.value
                          THEN seen @@ ingest(key, now, d.path)
                          ELSE same @@ seen @@ [error |-> "none"]

\* The body of make: the error it raises ("none" when it returns), the
\* resolver it called, whether the directory it resolved existed, and the
\* tables as it leaves them.
make_body(key, now) ==
    LET same == [Processing |-> Processing, files |-> ProcessingOutputFile]
        m == fetch1(Restrict(ProcessingMethod, key), "processing_method")
    IN  IF m.error # "none"
        THEN same @@ [error |-> m.error, resolver |-> "none", dir_existed |-> FALSE]
        ELSE LET d == dispatch(m.value, key)
             IN  IF d.error # "none"
                 THEN same @@ [error |-> d.error, resolver |-> d.resolver,
                               dir_existed |-> FALSE]
                 ELSE LET e == exist(d.path)
                          seen == [resolver |-> d.resolver, dir_existed |-> d.path \in fs]
                      IN  IF e.error # "none"
                          THEN same @@ seen @@ [error |-> e.error]
                          ELSE IF e.value
                          THEN seen @@ ingest(key, now, d.path)
                          ELSE same @@ seen @@ [error |-> "none"]

\* ------------------------------------------------------------- actions
Init ==
    /\ ProcessingMethod = contents
    /\ ProcessingTask = {}
    /\ Processing = {}
    /\ ProcessingOutputFile = {}
    /\ fs = {}
    /\ hook \in {"stub", "deployed"}
    /\ last = NoCall

\* ProcessingMethod.insert1: a further method is registered.
InsertMethod(m) ==
    /\ [processing_method |-> m] \notin ProcessingMethod
    /\ ProcessingMethod' = ProcessingMethod \cup {[processing_method |-> m]}
    /\ UNCHANGED <<ProcessingTask, Processing, ProcessingOutputFile, fs, hook, last>>

\* (ProcessingMethod & m).delete(): the delete cascades along the foreign keys
\* to the tasks of the method, their Processing rows and output files.
DeleteMethod(m) ==
    /\ [processing_method |-> m] \in ProcessingMethod
    /\ ProcessingMethod' = ProcessingMethod \ {[processing_method |-> m]}
    /\ ProcessingTask' = {t \in ProcessingTask : t.processing_method # m}
    /\ Processing' = {p \in Processing : KeyOf(p) \in KeysOf(ProcessingTask')}
    /\ ProcessingOutputFile' =
           {f \in ProcessingOutputFile : KeyOf(f) \in KeysOf(Processing')}
    /\ UNCHANGED <<fs, hook, last>>

\* ProcessingTask.insert1: a task for a parameter set of method m; the key is
\* new and the method is a row of ProcessingMethod (foreign key).
InsertTask(key, m) ==
    /\ key \notin KeysOf(ProcessingTask)
    /\ [processing_method |-> m] \in ProcessingMethod
    /\ ProcessingTask' = ProcessingTask \cup
           {key @@ [processing_method |-> m, paramset_idx |-> 0]}
    /\ UNCHANGED <<ProcessingMethod, Processing, ProcessingOutputFile, fs, hook, last>>

\* The external tool creates the output directory of a task, with the
\* subdirectory extra/ and a file inside it.
CreateOutputDir(key) ==
    /\ OutputDir(key) \notin fs
    /\ fs' = fs \cup {OutputDir(key), SubDir(key), NestedFile(key)}
    /\ UNCHANGED <<ProcessingMethod, ProcessingTask, Processing, ProcessingOutputFile,
                   hook, last>>

\* The external tool writes its next output file into the directory.
WriteOutputFile(key) ==
    /\ OutputDir(key) \in fs
    /\ \E i \in DOMAIN FileNames :
          /\ OutputFile(key, i) \notin fs
          /\ \A j \in 1..(i - 1) : OutputFile(key, j) \in fs
          /\ fs' = fs \cup {OutputFile(key, i)}
    /\ UNCHANGED <<ProcessingMethod, ProcessingTask, Processing, ProcessingOutputFile,
                   hook, last>>

\* Processing.make(key) for a key of ProcessingTask, called directly or by
\* populate(), which calls it for the keys without a Processing row, inside a
\* transaction that is rolled back when make raises.
make(key) ==
    /\ key \in KeysOf(ProcessingTask)
    /\ \E now \in Times, via_populate \in BOOLEAN :
          /\ via_populate => key \notin KeysOf(Processing)
          /\ LET r == make_body(key, now)
             IN  /\ last' = [key |-> key, error |-> r.error, resolver |-> r.resolver,
                             dir_existed |-> r.dir_existed, call |-> 1 - last.call]
                 /\ IF via_populate /\ r.error # "none"
                    THEN UNCHANGED <<Processing, ProcessingOutputFile>>
                    ELSE /\ Processing' = r.Processing
                         /\ ProcessingOutputFile' = r.files
    /\ UNCHANGED <<ProcessingMethod, ProcessingTask, fs, hook>>

Next ==
    \/ \E m \in MethodNames : InsertMethod(m)
    \/ \E m \in MethodNames : DeleteMethod(m)
    \/ \E key \in Keys, m \in MethodNames : InsertTask(key, m)
    \/ \E key \in Keys : CreateOutputDir(key)
    \/ \E key \in Keys : WriteOutputFile(key)
    \/ \E key \in Keys : make(key)

Spec == Init /\ [][Next]_vars

\* ------------------------------------------------------------- properties
\* The processing method of the parameter set a task chose.
TaskMethod(key) ==
    (CHOOSE t \in ProcessingTask : KeyOf(t) = key).processing_method
\* A task is complete when it has a Processing row, pending otherwise.
Complete(key) == key \in KeysOf(Processing)
\* The output-file references of a task, and its Processing row.
FilesOf(key) == {f \in ProcessingOutputFile : KeyOf(f) = key}
RowsOf(key) == {p \in Processing : KeyOf(p) = key}
\* The regular files that are immediate children of a directory.
RegularFiles(d) == {f \in glob(d) : is_file(f)}
\* A stored relative path refers to the file f when it resolves to f from the root.
RefersTo(file_path, f) == Rejoin(_get_root_data_dir, file_path) = as_posix(f, TRUE)
\* The step is a call of make for the key.
Called(key) == last'.call # last.call /\ last'.key = key
\* The call of make that a step makes returned normally.
Returned == last'.error = "none"
TablesUnchanged == UNCHANGED <<Processing, ProcessingOutputFile>>

\* C1: a task has a Processing row if and only if some call of make for it
\* found its resolved output directory existing: a call that finds the
\* directory leaves the task complete, and a task becomes complete only in
\* such a call.
C1_RowIffDirectorySeen ==
    [][\A key \in Keys :
          /\ (Called(key) /\ last'.dir_existed) => Complete(key)'
          /\ (~Complete(key) /\ Complete(key)') =>
                 (Called(key) /\ last'.dir_existed)]_vars

\* C2: a call of make for a task whose method is neither suite2p nor caiman
\* raises, leaves both tables as they were, and the task is pending after it.
C2_UnknownMethodRaises ==
    [][\A key \in Keys :
          (Called(key) /\ TaskMethod(key) \notin Recognized) =>
              (~Returned /\ TablesUnchanged /\ ~Complete(key)')]_vars

\* C2, the case: make raised NotImplementedError for a task of another method.
C2_Witness ==
    /\ last.error = "NotImplementedError"
    /\ last.key \in KeysOf(ProcessingTask)
    /\ TaskMethod(last.key) = "other"
    /\ ~Complete(last.key)

\* C3: a call of make for a task of a recognized method whose resolved output
\* directory does not exist returns without raising and changes no table.
C3_MissingDirectoryReturns ==
    [][\A key \in Keys :
          (Called(key) /\ TaskMethod(key) \in Recognized
             /\ last'.resolver = TaskMethod(key) /\ hook = "deployed"
             /\ OutputDir(key) \notin fs) =>
              (Returned /\ TablesUnchanged)]_vars

C5_StoredPathsRoundTrip ==
    [][\A key \in Keys :
          (Called(key) /\ last'.dir_existed) =>
              /\ \A f \in RegularFiles(OutputDir(key)) :
                     \E r \in FilesOf(key)' : RefersTo(r.file_path, f)
              /\ \A r \in FilesOf(key)' :
                     \E f \in glob(OutputDir(key)) : RefersTo(r.file_path, f)]_vars

\* C6: a call of make that finds the directory leaves a Processing row and
\* exactly one reference per regular file that is an immediate child of the
\* directory, none for subdirectories or the files inside them.
C6_ReferencesAreTheRegularFiles ==
    [][\A key \in Keys :
          (Called(key) /\ last'.dir_existed /\ ~Complete(key)) =>
              /\ Complete(key)'
              /\ {r.file_path : r \in FilesOf(key)'} =
                     {as_posix(relative_to(f, _get_root_data_dir).parts, FALSE) :
                          f \in RegularFiles(OutputDir(key))}]_vars

\* C7: the row of a task is created by the first call of make that finds its
\* directory, and no call of make removes or changes a row or the references
\* of a complete task.
C7_LifecycleIsMonotone ==
    [][\A key \in Keys :
          /\ (Called(key) /\ last'.dir_existed /\ ~Complete(key)) =>
                 Cardinality(RowsOf(key)') = 1
          /\ (last'.call # last.call /\ Complete(key)) =>
                 (RowsOf(key)' = RowsOf(key) /\ FilesOf(key)' = FilesOf(key))]_vars

\* C8: make calls the suite2p resolver exactly when the method of the task is
\* suite2p and the caiman resolver exactly when it is caiman.
C8_DispatchOnTaskMethod ==
    [][\A key \in Keys :
          (Called(key)) =>
              /\ last'.resolver = "suite2p" <=> TaskMethod(key) = "suite2p"
              /\ last'.resolver = "caiman" <=> TaskMethod(key) = "caiman"]_vars

C10_AbsentDirectoryIsNotReady ==
    [][\A key \in Keys :
          (Called(key) /\ last'.resolver \in Recognized
             /\ hook = "stub") =>
              (Returned /\ TablesUnchanged /\ ~Complete(key)')]_vars

====
